---- MODULE Spec2Model ----
(***************************************************************************)
(* A model of spotify-archive: the playlist fetcher, the duplicate filter, *)
(* the duplicate finder, the chunking helper and the passes built on them  *)
(* (archive, recommendation, deduplication), with the provider client as   *)
(* the environment.                                                        *)
(***************************************************************************)
EXTENDS Integers, Sequences, FiniteSets, TLC

VARIABLES
    pc,        \* position of the running operation
    args,      \* the operation's arguments (a record)
    playlist,  \* provider state: the contents of the target playlist
    results,   \* the page last served by the provider: [items, next]
    items,     \* the fetcher's accumulated items
    locals,    \* the running operation's local variables (a record)
    calls,     \* provider calls issued so far, in order
    ret        \* the operation's return value

vars == <<pc, args, playlist, results, items, locals, calls, ret>>

(***************************************************************************)
(* Values                                                                  *)
(***************************************************************************)

\* Python's None
None == "None"

\* what an operation that has not returned, or returns nothing, holds
NoValue == "NoValue"

\* the exception get_recommendations raises
ValueError == "ValueError"

\* bounds of the inputs
MaxLen == 4
MaxTime == 3

Isrcs == {"A", "B"}
Times == 1..MaxTime

\* a playlist item {"track": {"external_ids": {"isrc": ..}, "id": ..}, "added_at": ..}
Item(isrc, id, added_at) == [isrc |-> isrc, id |-> id, added_at |-> added_at]

Min(a, b) == IF a < b THEN a ELSE b

RECURSIVE Concat(_)
Concat(seqs) == IF seqs = <<>> THEN <<>> ELSE Head(seqs) \o Concat(Tail(seqs))

(***************************************************************************)
(* utils.py: get_tracks_info                                               *)
(***************************************************************************)
get_tracks_info(tracks) ==
    [i \in 1..Len(tracks) |->
        [external_id |-> tracks[i].isrc,
         uri |-> tracks[i].id,
         position |-> i - 1,
         added_at |-> tracks[i].added_at]]

(***************************************************************************)
(* utils.py: find_duplicates_by_external_id                                *)
(***************************************************************************)

\* whether entry i is the first of a non-null external id
IsFirstOfKey(tracks_info, i) ==
    /\ tracks_info[i].external_id # None
    /\ \A j \in 1..(i - 1) : tracks_info[j].external_id # tracks_info[i].external_id

\* one list per key, each holding the key's entries in fetch order
GroupsOf(tracks_info, keys) ==
    [g \in 1..Len(keys) |-> SelectSeq(tracks_info, LAMBDA t : t.external_id = keys[g])]

\* the values of the insertion-ordered dict seen after the grouping loop:
\* one list per non-null external id, in the order the ids first occur,
\* each holding the id's entries in fetch order
GroupByExternalId(tracks_info) ==
    LET firsts == SelectSeq([i \in 1..Len(tracks_info) |-> i],
                            LAMBDA i : IsFirstOfKey(tracks_info, i))
    IN  GroupsOf(tracks_info, [g \in 1..Len(firsts) |-> tracks_info[firsts[g]].external_id])

\* a sort that puts the later of two entries of equal key first (not stable)
SortedIndexUnstable(d, i) ==
    Cardinality({j \in 1..Len(d) :
        \/ d[j].added_at < d[i].added_at
        \/ d[j].added_at = d[i].added_at /\ j > i}) + 1

\* the index a stable sort by added_at gives d[i]: after the entries of a
\* smaller key and after the earlier entries of the same key
SortedIndex(d, i) ==
    Cardinality({j \in 1..Len(d) :
        \/ d[j].added_at < d[i].added_at
        \/ d[j].added_at = d[i].added_at /\ j < i}) + 1

\* the list with d[i] moved to index[i]
Permuted(d, index) ==
    [k \in 1..Len(d) |-> d[CHOOSE i \in 1..Len(d) : index[i] = k]]

\* d.sort(key=lambda x: x.added_at): a stable sort (the index is held as a
\* tuple, by \o <<>>, so that it is computed once)
SortByAddedAt(d) == Permuted(d, [i \in 1..Len(d) |-> SortedIndex(d, i)] \o <<>>)

\* d[:-1] in place of d[1:]: the latest entry survives
RemovalsKeepLast(d) ==
    [i \in 1..(Len(d) - 1) |-> [uri |-> d[i].uri, positions |-> <<d[i].position>>]]

\* [{"uri": t.uri, "positions": [t.position]} for t in d[1:]]
Removals(d) ==
    [i \in 1..(Len(d) - 1) |-> [uri |-> d[i + 1].uri, positions |-> <<d[i + 1].position>>]]

\* len(v) > 2 in place of len(v) > 1: pairs are left alone
DuplicatesOverTwo(seen) == SelectSeq(seen, LAMBDA v : Len(v) > 2)

Duplicates(seen) == SelectSeq(seen, LAMBDA v : Len(v) > 1)

find_duplicates_by_external_id(tracks) ==
    LET seen == GroupByExternalId(get_tracks_info(tracks))
        duplicates == Duplicates(seen)
    IN  Concat([g \in 1..Len(duplicates) |-> Removals(SortByAddedAt(duplicates[g]))])

(***************************************************************************)
(* The duplicate finder applied to every small snapshot                    *)
(***************************************************************************)
\* native ids are unique per slot, or every slot holds the same track
UniqueIds(n) == [i \in 1..n |-> i]
SameIds(n) == [i \in 1..n |-> 1]

Snapshot(f, ids) == [i \in 1..Len(f) |-> Item(f[i][1], ids[i], f[i][2])]

InitDup ==
    /\ pc = "start"
    /\ \E k \in 0..MaxLen :
         \E f \in [1..k -> (Isrcs \cup {None}) \X Times] :
            \E ids \in {UniqueIds(k), SameIds(k)} :
                args = [tracks |-> Snapshot(f, ids)]
    /\ playlist = <<>>
    /\ results = None
    /\ items = <<>>
    /\ locals = None
    /\ calls = <<>>
    /\ ret = NoValue

FindDuplicates ==
    /\ pc = "start"
    /\ ret' = find_duplicates_by_external_id(args.tracks)
    /\ pc' = "done"
    /\ UNCHANGED <<args, playlist, results, items, locals, calls>>

NextDup == FindDuplicates

SpecDup == InitDup /\ [][NextDup]_vars

(***************************************************************************)
(* Claims about find_duplicates_by_external_id                             *)
(***************************************************************************)

\* the slots (1-based) of snapshot T that share the non-null external id of slot p
Group(T, p) == {q \in 1..Len(T) : T[q].isrc = T[p].isrc}

\* slot q comes before slot p in (added_at, fetch order)
Earlier(T, q, p) ==
    \/ T[q].added_at < T[p].added_at
    \/ T[q].added_at = T[p].added_at /\ q < p

\* slot p is not the first of its group
Removed(T, p) ==
    /\ T[p].isrc # None
    /\ \E q \in Group(T, p) : Earlier(T, q, p)

FirstSeen(T, p) == CHOOSE q \in Group(T, p) : \A r \in Group(T, p) : q <= r

\* slot p's instruction is emitted before slot q's
EmittedBefore(T, p, q) ==
    \/ FirstSeen(T, p) < FirstSeen(T, q)
    \/ T[p].isrc = T[q].isrc /\ Earlier(T, p, q)

\* the slot an instruction names
SlotOf(instr) == instr.positions[1] + 1

IsRemovalList(T, out) ==
    /\ Len(out) = Cardinality({p \in 1..Len(T) : Removed(T, p)})
    /\ \A i \in 1..Len(out) :
        /\ Len(out[i].positions) = 1
        /\ SlotOf(out[i]) \in 1..Len(T)
        /\ Removed(T, SlotOf(out[i]))
        /\ out[i].uri = T[SlotOf(out[i])].id
    /\ \A i, j \in 1..Len(out) :
        i < j => EmittedBefore(T, SlotOf(out[i]), SlotOf(out[j]))

\* C1: find_duplicates returns one instruction {native id, [position]} for
\* every entry that is not the first (by added_at, ties by fetch order) of
\* its non-null external id group, the groups in first-seen order and each
\* group's instructions in (added_at, fetch order); nothing else.
C1_FindDuplicatesExact ==
    pc = "done" => IsRemovalList(args.tracks, ret)

\* two groups with duplicates, one of them with a tie of added_at
C1_Witness ==
    /\ pc = "done"
    /\ \E i, j \in 1..Len(ret) :
        /\ args.tracks[SlotOf(ret[i])].isrc # args.tracks[SlotOf(ret[j])].isrc
        /\ \E q \in Group(args.tracks, SlotOf(ret[i])) :
            /\ q # SlotOf(ret[i])
            /\ args.tracks[q].added_at = args.tracks[SlotOf(ret[i])].added_at

\* the scenario: external ids [A,A,B,A] added at [t3,t1,t2,t1]
IsScenario(T) ==
    /\ Len(T) = 4
    /\ [i \in 1..4 |-> T[i].isrc] = <<"A", "A", "B", "A">>
    /\ [i \in 1..4 |-> T[i].added_at] = <<3, 1, 2, 1>>

\* C2 as stated: the removals are position 0, then position 3.
C2_ScenarioAsStated ==
    (pc = "done" /\ IsScenario(args.tracks)) =>
        ret = << [uri |-> args.tracks[1].id, positions |-> <<0>>],
                 [uri |-> args.tracks[4].id, positions |-> <<3>>] >>

\* C2 amended: in the scenario position 1 survives and the removals are
\* position 3 (the later of the two t1 entries), then position 0 (t3).
C2_ScenarioSorted ==
    (pc = "done" /\ IsScenario(args.tracks)) =>
        ret = << [uri |-> args.tracks[4].id, positions |-> <<3>>],
                 [uri |-> args.tracks[1].id, positions |-> <<0>>] >>

C2_Witness ==
    /\ pc = "done"
    /\ IsScenario(args.tracks)
    /\ args.tracks[1].id # args.tracks[4].id

\* the snapshot without the given slots, positions re-indexed
RemoveSlots(T, slots) ==
    LET left == SelectSeq([p \in 1..Len(T) |-> p], LAMBDA p : p \notin slots) IN
    [k \in 1..Len(left) |-> T[left[k]]]

ApplyRemovals(T, out) == RemoveSlots(T, {SlotOf(out[i]) : i \in 1..Len(out)})

NoSharedExternalId(T) ==
    \A p, q \in 1..Len(T) : (p # q /\ T[p].isrc # None) => T[p].isrc # T[q].isrc

\* C5: the snapshot with the named positions removed has no two entries of
\* the same non-null external id, and find_duplicates finds nothing in it.
C5_RemovalsLeaveNoDuplicates ==
    pc = "done" =>
        LET after == ApplyRemovals(args.tracks, ret) IN
        /\ NoSharedExternalId(after)
        /\ find_duplicates_by_external_id(after) = <<>>

\* two removals were applied and two entries survive
C5_Witness ==
    /\ pc = "done"
    /\ Len(ret) = 2
    /\ Len(ApplyRemovals(args.tracks, ret)) = 2

(***************************************************************************)
(* utils.py: filter_out_duplicates                                         *)
(***************************************************************************)

\* a track as the provider recommends it: no "track" wrapper, no added_at
Track(isrc, id) == [isrc |-> isrc, id |-> id]

\* t.get("track", t): a playlist item gives its inner track, a bare track itself
Unwrap(t) == IF "added_at" \in DOMAIN t THEN Track(t.isrc, t.id) ELSE t

\* the condition of the comprehension
Kept(t, tracks_external_ids, tracks_uris) ==
    /\ t.isrc \notin tracks_external_ids
    /\ t.id \notin tracks_uris

filter_out_duplicates(tracks, new_tracks) ==
    LET tracks_info == get_tracks_info(tracks)
        tracks_external_ids == {tracks_info[i].external_id : i \in 1..Len(tracks_info)}
        tracks_uris == {tracks_info[i].uri : i \in 1..Len(tracks_info)}
        unwrapped == [i \in 1..Len(new_tracks) |-> Unwrap(new_tracks[i])]
    IN  SelectSeq(unwrapped, LAMBDA t : Kept(t, tracks_external_ids, tracks_uris))

(***************************************************************************)
(* The duplicate filter applied to every small pair of sequences           *)
(***************************************************************************)
MaxExisting == 2
MaxCandidates == 2

ExistingIds == {"x", "y"}
CandidateIds == {"x", "z", "w"}

\* candidates arrive as playlist items (archive pass) or bare tracks (recommendations)
AsItems(c) == [i \in 1..Len(c) |-> Item(c[i][1], c[i][2], 1)]
AsTracks(c) == [i \in 1..Len(c) |-> Track(c[i][1], c[i][2])]

InitFilter ==
    /\ pc = "start"
    /\ \E k \in 0..MaxExisting, m \in 0..MaxCandidates :
         \E e \in [1..k -> (Isrcs \cup {None}) \X ExistingIds] :
            \E c \in [1..m -> (Isrcs \cup {None}) \X CandidateIds] :
                \E new \in {AsItems(c), AsTracks(c)} :
                    args = [tracks |-> AsItems(e), new_tracks |-> new]
    /\ playlist = <<>>
    /\ results = None
    /\ items = <<>>
    /\ locals = None
    /\ calls = <<>>
    /\ ret = NoValue

FilterOutDuplicates ==
    /\ pc = "start"
    /\ ret' = filter_out_duplicates(args.tracks, args.new_tracks)
    /\ pc' = "done"
    /\ UNCHANGED <<args, playlist, results, items, locals, calls>>

NextFilter == FilterOutDuplicates

SpecFilter == InitFilter /\ [][NextFilter]_vars

(***************************************************************************)
(* Claims about filter_out_duplicates                                      *)
(***************************************************************************)
ExternalIdsOf(T) == {T[i].isrc : i \in 1..Len(T)} \ {None}
NativeIdsOf(T) == {T[i].id : i \in 1..Len(T)}

\* the dual-key rule: a non-null external id already present, or the native id
IsDuplicateOf(T, c) ==
    \/ c.isrc # None /\ c.isrc \in ExternalIdsOf(T)
    \/ c.id \in NativeIdsOf(T)

\* C3: the result is the candidates, in order, without exactly those that
\* are duplicates under the dual-key rule; a candidate with no external id
\* and an unseen native id is kept.
C3_DualKeyRule ==
    pc = "done" =>
        ret = SelectSeq([i \in 1..Len(args.new_tracks) |-> Unwrap(args.new_tracks[i])],
                        LAMBDA c : ~IsDuplicateOf(args.tracks, c))

(***************************************************************************)
(* utils.py: make_chunks                                                   *)
(***************************************************************************)

\* range(start, stop, step) for a step other than zero (a zero step raises
\* ValueError: see RangeRaises)
RECURSIVE range(_, _, _)
range(start, stop, step) ==
    IF (step > 0 /\ start >= stop) \/ (step < 0 /\ start <= stop) THEN <<>>
    ELSE <<start>> \o range(start + step, stop, step)

\* range() arg 3 must not be zero
RangeRaises(step) == step = 0

\* list_[a:b] for 0 <= a <= b
Slice(list_, a, b) == SubSeq(list_, a + 1, Min(b, Len(list_)))

\* range(0, len(list_) + 1, n): one index too many when n divides the length
make_chunks_inclusive(list_, n) ==
    LET starts == range(0, Len(list_) + 1, n) IN
    [k \in 1..Len(starts) |-> Slice(list_, starts[k], starts[k] + n)]

\* the chunks the generator yields, in order
make_chunks(list_, n) ==
    LET starts == range(0, Len(list_), n) IN
    [k \in 1..Len(starts) |-> Slice(list_, starts[k], starts[k] + n)]

(***************************************************************************)
(* The chunking helper applied to every small list and chunk size          *)
(***************************************************************************)
MaxListLen == 5
MaxChunkSize == 6

Elems == {"a", "b", "c"}

InitChunks ==
    /\ pc = "start"
    /\ \E k \in 0..MaxListLen, n \in 1..MaxChunkSize :
         \E l \in [1..k -> Elems] :
            args = [list_ |-> l, n |-> n]
    /\ playlist = <<>>
    /\ results = None
    /\ items = <<>>
    /\ locals = None
    /\ calls = <<>>
    /\ ret = NoValue

MakeChunks ==
    /\ pc = "start"
    /\ ret' = make_chunks(args.list_, args.n)
    /\ pc' = "done"
    /\ UNCHANGED <<args, playlist, results, items, locals, calls>>

NextChunks == MakeChunks

SpecChunks == InitChunks /\ [][NextChunks]_vars

\* C4: for n > 0 the chunks concatenate to the list, each has between 1 and
\* n elements, all but the last exactly n, and an empty list has no chunk.
C4_ChunksPartition ==
    pc = "done" =>
        /\ Concat(ret) = args.list_
        /\ \A k \in 1..Len(ret) :
            /\ Len(ret[k]) >= 1
            /\ Len(ret[k]) <= args.n
            /\ k < Len(ret) => Len(ret[k]) = args.n
        /\ args.list_ = <<>> => ret = <<>>

\* a list split into full chunks and a shorter last one
C4_Witness ==
    /\ pc = "done"
    /\ Len(ret) = 3
    /\ Len(ret[3]) < args.n

(***************************************************************************)
(* Return values of the passes                                             *)
(***************************************************************************)
Pending == [kind |-> "pending", value |-> <<>>]
Returned(v) == [kind |-> "value", value |-> v]
ReturnedNone == [kind |-> "none", value |-> <<>>]
Raised(e) == [kind |-> e, value |-> <<>>]

(***************************************************************************)
(* The provider client                                                     *)
(***************************************************************************)

\* the number of items the provider serves per page
PageSize == 2

\* the added_at the provider gives the items it appends
AppendTime == MaxTime + 1

\* the page at an offset: its items and the offset of the next page, if any
\* (an absent next is <<>>, a present one <<offset>>)
Page(contents, offset) ==
    [items |-> Slice(contents, offset, offset + PageSize),
     next |-> IF offset + PageSize < Len(contents) THEN <<offset + PageSize>> ELSE <<>>]

\* playlist_add_items: the tracks are appended in the order given
ProviderAppend(contents, tracks) ==
    contents \o [i \in 1..Len(tracks) |-> Item(tracks[i].isrc, tracks[i].id, AppendTime)]

IdsOf(tracks) == [i \in 1..Len(tracks) |-> tracks[i].id]

Count(log, op) == Cardinality({i \in 1..Len(log) : log[i].op = op})

(***************************************************************************)
(* utils.py: get_all_playlist_items                                        *)
(***************************************************************************)

\* results = client.playlist_items(playlist_id); items = results["items"]
FetchFirst ==
    /\ pc = "fetch"
    /\ results' = Page(playlist, 0)
    /\ items' = results'.items
    /\ calls' = Append(calls, [op |-> "playlist_items"])
    /\ pc' = "paging"
    /\ UNCHANGED <<args, playlist, locals, ret>>

\* while results["next"]: results = client.next(results); items.extend(...)
FetchNext ==
    /\ pc = "paging"
    /\ results.next # <<>>
    /\ results' = Page(playlist, results.next[1])
    /\ items' = items \o results'.items
    /\ calls' = Append(calls, [op |-> "next"])
    /\ UNCHANGED <<pc, args, playlist, locals, ret>>

\* return items
FetchReturn ==
    /\ pc = "paging"
    /\ results.next = <<>>
    /\ pc' = "fetched"
    /\ UNCHANGED <<args, playlist, results, items, locals, calls, ret>>

(***************************************************************************)
(* utils.py: add_to_all_time_playlist                                      *)
(***************************************************************************)

\* t["track"]: present on a playlist item, a KeyError on a bare track
HasTrackKey(t) == "added_at" \in DOMAIN t

\* tracks_to_be_added holds what filter_out_duplicates returns, the inner
\* tracks; uris_to_be_added = [t["track"]["id"] ...] raises on the first of them
AddToAllTimePlaylist ==
    /\ pc = "fetched"
    /\ args.variant = "utils"
    /\ LET tracks_to_be_added == filter_out_duplicates(items, args.tracks) IN
       IF \E i \in 1..Len(tracks_to_be_added) : ~HasTrackKey(tracks_to_be_added[i])
       THEN /\ ret' = Raised("KeyError")
            /\ pc' = "raised"
            /\ UNCHANGED <<calls, playlist>>
       ELSE LET uris_to_be_added == IdsOf(tracks_to_be_added) IN
            /\ IF uris_to_be_added = <<>>
               THEN /\ ret' = Returned(<<>>)
                    /\ UNCHANGED <<calls, playlist>>
               ELSE /\ calls' = Append(calls, [op |-> "playlist_add_items", items |-> uris_to_be_added])
                    /\ playlist' = ProviderAppend(playlist, tracks_to_be_added)
                    /\ ret' = Returned(uris_to_be_added)
            /\ pc' = "done"
    /\ UNCHANGED <<args, results, items, locals>>

(***************************************************************************)
(* main.py: parse_this_week, add_to_all_time_playlist                      *)
(* (track["uri"] there is the native id with a fixed prefix; the model     *)
(* writes the native id for it)                                            *)
(***************************************************************************)

\* dw_items = client.playlist_items(...): the first page of the source;
\* dw_items["items"][0] raises IndexError on an empty page
ParseThisWeek ==
    /\ pc = "parse"
    /\ LET dw_items == Page(args.tracks, 0).items IN
       IF dw_items = <<>>
       THEN /\ ret' = Raised("IndexError")
            /\ pc' = "raised"
            /\ UNCHANGED locals
       ELSE /\ locals' = [dw_items |-> dw_items]
            /\ pc' = "parsed"
            /\ UNCHANGED ret
    /\ calls' = Append(calls, [op |-> "playlist_items"])
    /\ UNCHANGED <<args, playlist, results, items>>

\* all_all_time_tracks = client.playlist_items(...): no page is followed
MainFetch ==
    /\ pc = "parsed"
    /\ results' = Page(playlist, 0)
    /\ items' = results'.items
    /\ calls' = Append(calls, [op |-> "playlist_items"])
    /\ pc' = "fetched"
    /\ UNCHANGED <<args, playlist, locals, ret>>

MainAddToAllTimePlaylist ==
    /\ pc = "fetched"
    /\ args.variant = "main"
    /\ LET all_time_uris == {items[i].id : i \in 1..Len(items)}
           tracks_to_be_added == SelectSeq(locals.dw_items, LAMBDA t : t.id \notin all_time_uris)
           uris_to_be_added == IdsOf(tracks_to_be_added)
       IN  IF uris_to_be_added = <<>>
           THEN UNCHANGED <<calls, playlist>>
           ELSE /\ calls' = Append(calls, [op |-> "playlist_add_items", items |-> uris_to_be_added])
                /\ playlist' = ProviderAppend(playlist, tracks_to_be_added)
    /\ ret' = ReturnedNone
    /\ pc' = "done"
    /\ UNCHANGED <<args, results, items, locals>>

(***************************************************************************)
(* The archive pass, in both variants, on every small target and source    *)
(***************************************************************************)
MaxTarget == 3
MaxSource == 2

TargetEntries == {"A", None} \X {"x", "y"}
SourceEntries == (Isrcs \cup {None}) \X {"x", "z"}

InitArchive ==
    /\ \E variant \in {"utils", "main"} :
         /\ pc = IF variant = "utils" THEN "fetch" ELSE "parse"
         /\ \E m \in 0..MaxSource :
              \E c \in [1..m -> SourceEntries] :
                 args = [variant |-> variant, tracks |-> AsItems(c)]
    /\ \E k \in 0..MaxTarget :
         \E e \in [1..k -> TargetEntries] :
            playlist = AsItems(e)
    /\ results = Page(<<>>, 0)
    /\ items = <<>>
    /\ locals = [dw_items |-> <<>>]
    /\ calls = <<>>
    /\ ret = Pending

NextArchive ==
    \/ FetchFirst
    \/ FetchNext
    \/ FetchReturn
    \/ AddToAllTimePlaylist
    \/ ParseThisWeek
    \/ MainFetch
    \/ MainAddToAllTimePlaylist

SpecArchive == InitArchive /\ [][NextArchive]_vars

(***************************************************************************)
(* Claims about the archive pass and the fetcher                           *)
(***************************************************************************)

\* the playlist_add_items calls issued so far
AppendCalls == SelectSeq(calls, LAMBDA c : c.op = "playlist_add_items")

\* the additions each variant computes from what it fetched
Additions ==
    IF args.variant = "utils"
    THEN IdsOf(filter_out_duplicates(items, args.tracks))
    ELSE LET dw_uris == IdsOf(locals.dw_items) IN
         SelectSeq(dw_uris, LAMBDA u : \A i \in 1..Len(items) : items[i].id # u)

\* no append call for empty additions, else one call carrying them in order
AppendsExactlyAdditions ==
    IF Additions = <<>>
    THEN AppendCalls = <<>>
    ELSE AppendCalls = << [op |-> "playlist_add_items", items |-> Additions] >>

\* C7: an archive pass of either variant ends having appended exactly its
\* additions in one call (none when they are empty) and returns that list
\* (the empty list when they are empty).
C7_ArchiveAsStated ==
    (pc = "done" \/ ret = Raised("KeyError")) =>
        /\ AppendsExactlyAdditions
        /\ ret = Returned(Additions)

\* C8: every fetch the passes use returns the complete ordered contents of
\* the playlist, however many pages the provider serves.
C8_FetchComplete ==
    pc = "fetched" => items = playlist

(***************************************************************************)
(* utils.py: get_recommendations                                           *)
(* An optional list is <<>> for None and <<list>> for a list.              *)
(***************************************************************************)
MAX_SEEDS == 5

\* the largest limit get_recommendations accepts
MAX_LIMIT == 100

NoList == <<>>
Some(l) == <<l>>

\* x or []
OrEmpty(opt) == IF opt = NoList THEN <<>> ELSE opt[1]

\* bool(x): None and the empty list are false
Truthy(opt) == opt # NoList /\ opt[1] # <<>>

\* a validation without the seed-count test
RecommendationsRaisesNoCount(seed_tracks, seed_genres, limit) ==
    \/ limit > MAX_LIMIT
    \/ ~Truthy(seed_tracks) /\ ~Truthy(seed_genres)

\* the three validations, each raising ValueError
RecommendationsRaises(seed_tracks, seed_genres, limit) ==
    \/ limit > MAX_LIMIT
    \/ ~Truthy(seed_tracks) /\ ~Truthy(seed_genres)
    \/ Len(OrEmpty(seed_tracks)) + Len(OrEmpty(seed_genres)) > MAX_SEEDS

RecommendationsCall(seed_tracks, seed_genres, limit) ==
    [op |-> "recommendations", seed_tracks |-> seed_tracks,
     seed_genres |-> seed_genres, limit |-> limit]

\* the tracks the provider may recommend, and the lists it may answer with
MaxResponse == 2
RecTracks == {Track("A", "z"), Track(None, "w"), Track("B", "v")}

(***************************************************************************)
(* get_recommendations called with every small combination of arguments    *)
(***************************************************************************)
MaxSeedTracks == 6
MaxSeedGenres == 6

OptionalLists(S, n) == {NoList} \cup {Some(l) : l \in UNION {[1..k -> S] : k \in 0..n}}

InitRecs ==
    /\ pc = "start"
    /\ \E st \in OptionalLists({"x", "y"}, MaxSeedTracks) :
         \E sg \in OptionalLists({"rock"}, MaxSeedGenres) :
            \E limit \in (MAX_LIMIT - 1)..(MAX_LIMIT + 1) :
                args = [seed_tracks |-> st, seed_genres |-> sg, limit |-> limit]
    /\ playlist = <<>>
    /\ results = Page(<<>>, 0)
    /\ items = <<>>
    /\ locals = None
    /\ calls = <<>>
    /\ ret = Pending

GetRecommendations ==
    /\ pc = "start"
    /\ IF RecommendationsRaises(args.seed_tracks, args.seed_genres, args.limit)
       THEN /\ ret' = Raised(ValueError)
            /\ UNCHANGED calls
       ELSE /\ calls' = Append(calls,
                    RecommendationsCall(args.seed_tracks, args.seed_genres, args.limit))
            /\ \E k \in 0..MaxResponse : \E r \in [1..k -> RecTracks] : ret' = Returned(r)
    /\ pc' = "done"
    /\ UNCHANGED <<args, playlist, results, items, locals>>

NextRecs == GetRecommendations

SpecRecs == InitRecs /\ [][NextRecs]_vars

\* the three conditions of the claim, on the arguments as given
InvalidRequest(a) ==
    \/ a.limit > 100
    \/ /\ (a.seed_tracks = NoList \/ a.seed_tracks = Some(<<>>))
       /\ (a.seed_genres = NoList \/ a.seed_genres = Some(<<>>))
    \/ Len(OrEmpty(a.seed_tracks)) + Len(OrEmpty(a.seed_genres)) > 5

\* C6: get_recommendations raises ValueError without a provider call when
\* limit > 100, when it has neither a track seed nor a genre seed, or when
\* it has more than 5 seeds in total; otherwise it issues exactly one
\* recommendations call.
C6_ValidationBeforeRequest ==
    pc = "done" =>
        IF InvalidRequest(args)
        THEN ret = Raised(ValueError) /\ calls = <<>>
        ELSE /\ ret.kind = "value"
             /\ calls = << RecommendationsCall(args.seed_tracks, args.seed_genres, args.limit) >>

\* a request of exactly 5 seeds at limit 100 went out
C6_Witness ==
    /\ pc = "done"
    /\ Len(calls) = 1
    /\ Len(OrEmpty(args.seed_tracks)) + Len(OrEmpty(args.seed_genres)) = MAX_SEEDS
    /\ args.seed_genres # NoList
    /\ args.limit = MAX_LIMIT

(***************************************************************************)
(* utils.py: deduplicate_playlist                                          *)
(***************************************************************************)

\* the number of removal instructions per provider call
REMOVE_CHUNK == 100

\* playlist_remove_specific_occurrences_of_items: the occurrences named by
\* (uri, position) are removed from the playlist as it stands at the call
ProviderRemove(contents, chunk) ==
    LET named == {p \in 1..Len(contents) :
                    \E i \in 1..Len(chunk) :
                        /\ chunk[i].uri = contents[p].id
                        /\ chunk[i].positions = <<p - 1>>}
    IN  RemoveSlots(contents, named)

\* dups = find_duplicates_by_external_id(tracks); if not dups: return
DedupFind ==
    /\ pc = "fetched"
    /\ LET dups == find_duplicates_by_external_id(items) IN
       IF dups = <<>>
       THEN /\ ret' = ReturnedNone
            /\ pc' = "done"
            /\ UNCHANGED locals
       ELSE /\ locals' = [dups |-> dups, chunks |-> make_chunks(dups, REMOVE_CHUNK)]
            /\ pc' = "removing"
            /\ UNCHANGED ret
    /\ UNCHANGED <<args, playlist, results, items, calls>>

\* a loop that looks for duplicates again after every batch
DedupRemoveRefetch ==
    /\ pc = "removing"
    /\ locals.chunks # <<>>
    /\ calls' = Append(calls, [op |-> "remove", items |-> Head(locals.chunks)])
    /\ playlist' = ProviderRemove(playlist, Head(locals.chunks))
    /\ locals' = [locals EXCEPT !.chunks =
                    make_chunks(find_duplicates_by_external_id(playlist'), REMOVE_CHUNK)]
    /\ UNCHANGED <<pc, args, results, items, ret>>

\* for chunk in make_chunks(dups, 100): client.playlist_remove_...(items=chunk)
DedupRemove ==
    /\ pc = "removing"
    /\ locals.chunks # <<>>
    /\ calls' = Append(calls, [op |-> "remove", items |-> Head(locals.chunks)])
    /\ playlist' = ProviderRemove(playlist, Head(locals.chunks))
    /\ locals' = [locals EXCEPT !.chunks = Tail(locals.chunks)]
    /\ UNCHANGED <<pc, args, results, items, ret>>

DedupReturn ==
    /\ pc = "removing"
    /\ locals.chunks = <<>>
    /\ ret' = ReturnedNone
    /\ pc' = "done"
    /\ UNCHANGED <<args, playlist, results, items, locals, calls>>

(***************************************************************************)
(* The deduplication pass on playlists of up to a little over two batches  *)
(* of duplicates                                                           *)
(***************************************************************************)

\* how far past two full batches the playlists go
MaxExtra == 3

DedupLengths ==
    (0..3) \cup ((REMOVE_CHUNK - 1)..(REMOVE_CHUNK + 2))
           \cup ((2 * REMOVE_CHUNK)..(2 * REMOVE_CHUNK + MaxExtra))

\* one recording throughout, added at the same time
AllSame(n) == [i \in 1..n |-> Item("A", i, 1)]
\* two recordings alternating, the latest added first
TwoDescending(n) == [i \in 1..n |-> Item(IF i % 2 = 0 THEN "A" ELSE "B", i, n - i)]
\* every third entry without an external id, the rest one recording
ThirdWithout(n) == [i \in 1..n |-> Item(IF i % 3 = 0 THEN None ELSE "A", i, i % 2)]

InitDedup ==
    /\ pc = "fetch"
    /\ args = [playlist_id |-> "all_time"]
    /\ \E n \in DedupLengths :
         playlist \in {AllSame(n), TwoDescending(n), ThirdWithout(n)}
    /\ results = Page(<<>>, 0)
    /\ items = <<>>
    /\ locals = [dups |-> <<>>, chunks |-> <<>>]
    /\ calls = <<>>
    /\ ret = Pending

NextDedup ==
    \/ FetchFirst
    \/ FetchNext
    \/ FetchReturn
    \/ DedupFind
    \/ DedupRemove
    \/ DedupReturn

SpecDedup == InitDedup /\ [][NextDedup]_vars

(***************************************************************************)
(* Claims about deduplicate_playlist                                       *)
(***************************************************************************)
RemoveCalls == SelectSeq(calls, LAMBDA c : c.op = "remove")

Batches(log) == [i \in 1..Len(log) |-> log[i].items]

IsPrefix(a, b) == Len(a) <= Len(b) /\ a = SubSeq(b, 1, Len(a))

\* C9: the playlist is fetched once; the removal calls carry, in order and
\* in batches of 100 (the last possibly shorter), the instructions that
\* find_duplicates gives for that one fetched snapshot; no fetch follows a
\* removal; without duplicates there is no removal call.
C9_BatchesFromOneSnapshot ==
    /\ Count(calls, "playlist_items") <= 1
    /\ \A i, j \in 1..Len(calls) :
        (i < j /\ calls[i].op = "remove") => calls[j].op = "remove"
    /\ pc \in {"removing", "done"} =>
        LET dups == find_duplicates_by_external_id(items)
            sent == Concat(Batches(RemoveCalls))
        IN  /\ Count(calls, "playlist_items") = 1
            /\ IsPrefix(sent, dups)
            /\ \A k \in 1..Len(RemoveCalls) :
                /\ Len(RemoveCalls[k].items) >= 1
                /\ Len(RemoveCalls[k].items) <= 100
                /\ Len(RemoveCalls[k].items) < 100 => Len(sent) = Len(dups)
            /\ pc = "done" => sent = dups

\* three batches went out: two of 100 and a shorter one
C9_Witness ==
    /\ pc = "done"
    /\ Len(RemoveCalls) = 3
    /\ Len(RemoveCalls[1].items) = REMOVE_CHUNK
    /\ Len(RemoveCalls[3].items) < REMOVE_CHUNK

(***************************************************************************)
(* utils.py: add_recommendations_to_all_time_playlist                      *)
(***************************************************************************)

\* the limit of every request the sub-flow makes
REQUEST_LIMIT == 100

\* the list as fetched: the reverse() left out
NotReversed(l) == l

RECURSIVE Reverse(_)
Reverse(l) == IF l = <<>> THEN <<>> ELSE Append(Reverse(Tail(l)), Head(l))

Max(a, b) == IF a > b THEN a ELSE b

\* [x] * n
Repeat(x, n) == [i \in 1..Max(n, 0) |-> x]

\* zip_longest(a, b) of a list of lists and a list of optional lists; the
\* fill value is None
ZipLongest(a, b) ==
    [k \in 1..Max(Len(a), Len(b)) |->
        [s_uris |-> IF k <= Len(a) THEN Some(a[k]) ELSE NoList,
         s_genres |-> IF k <= Len(b) THEN b[k] ELSE NoList]]

\* list(a_set): the elements in any order
Orderings(S) ==
    {f \in [1..Cardinality(S) -> S] : \A i, j \in 1..Cardinality(S) : f[i] = f[j] => i = j}

\* the whole list: the [:limit] left out
SliceToAll(l, k) == l

\* l[:k], a negative k counting from the end
SliceTo(l, k) ==
    IF k >= 0 THEN SubSeq(l, 1, Min(k, Len(l)))
    ELSE IF Len(l) + k > 0 THEN SubSeq(l, 1, Len(l) + k) ELSE <<>>

\* the provider's track of a native id
TrackOfId(id) == CHOOSE t \in RecTracks : t.id = id

\* lines 163-169: the seed chunks and the pairing; the chunk generator's
\* range raises on a zero chunk size when the loop first asks it for a chunk
RecStart ==
    /\ pc = "fetched"
    /\ LET all_uris == Reverse(IdsOf(items))
           n == MAX_SEEDS - Len(OrEmpty(args.seed_genres))
       IN  IF RangeRaises(n)
           THEN /\ ret' = Raised(ValueError)
                /\ pc' = "raised"
                /\ UNCHANGED locals
           ELSE /\ locals' = [tries |-> 0, all_candidates |-> {},
                              pairs |-> ZipLongest(make_chunks(all_uris, n),
                                                   Repeat(args.seed_genres, args.max_tries))]
                /\ pc' = "loop"
                /\ UNCHANGED ret
    /\ UNCHANGED <<args, playlist, results, items, calls>>

\* one iteration of the loop, lines 171-192
RecAttempt ==
    /\ pc = "loop"
    /\ locals.pairs # <<>>
    /\ LET s == Head(locals.pairs)
           tries == locals.tries + 1
       IN  IF RecommendationsRaises(s.s_uris, s.s_genres, REQUEST_LIMIT)
           THEN /\ ret' = Raised(ValueError)
                /\ pc' = "raised"
                /\ locals' = [locals EXCEPT !.tries = tries]
                /\ UNCHANGED calls
           ELSE /\ calls' = Append(calls,
                        RecommendationsCall(s.s_uris, s.s_genres, REQUEST_LIMIT))
                /\ \E k \in 0..MaxResponse : \E recommendations \in [1..k -> RecTracks] :
                     LET candidates == filter_out_duplicates(items, recommendations)
                         all_candidates == locals.all_candidates
                                            \cup {candidates[i].id : i \in 1..Len(candidates)}
                     IN  /\ locals' = [tries |-> tries, all_candidates |-> all_candidates,
                                       pairs |-> Tail(locals.pairs)]
                         /\ pc' = IF \/ Cardinality(all_candidates) >= args.limit
                                     \/ tries >= args.max_tries
                                  THEN "finish" ELSE "loop"
                /\ UNCHANGED ret
    /\ UNCHANGED <<args, playlist, results, items>>

\* the pairs are exhausted
RecLoopEnd ==
    /\ pc = "loop"
    /\ locals.pairs = <<>>
    /\ pc' = "finish"
    /\ UNCHANGED <<args, playlist, results, items, locals, calls, ret>>

\* lines 194-203
RecFinish ==
    /\ pc = "finish"
    /\ IF locals.all_candidates = {}
       THEN /\ ret' = Returned(<<>>)
            /\ UNCHANGED <<calls, playlist>>
       ELSE \E order \in Orderings(locals.all_candidates) :
            LET uris_to_be_added == SliceTo(order, args.limit) IN
            /\ calls' = Append(calls, [op |-> "playlist_add_items", items |-> uris_to_be_added])
            /\ playlist' = ProviderAppend(playlist,
                    [i \in 1..Len(uris_to_be_added) |-> TrackOfId(uris_to_be_added[i])])
            /\ ret' = Returned(uris_to_be_added)
    /\ pc' = "done"
    /\ UNCHANGED <<args, results, items, locals>>

(***************************************************************************)
(* The recommendation sub-flow on every small target, limit, max_tries,    *)
(* genre list and provider answer                                          *)
(***************************************************************************)
MaxRecTarget == 3
MaxLimit == 2
MaxTries == 2

RecTargetEntries == {<<"A", "x">>, <<None, "y">>, <<"B", "v">>}

InitRecFlow ==
    /\ pc = "fetch"
    /\ \E sg \in OptionalLists({"rock"}, MaxSeedGenres) :
         \E limit \in 0..MaxLimit, max_tries \in 0..MaxTries :
            args = [limit |-> limit, seed_genres |-> sg, max_tries |-> max_tries]
    /\ \E k \in 0..MaxRecTarget :
         \E e \in [1..k -> RecTargetEntries] :
            playlist = AsItems(e)
    /\ results = Page(<<>>, 0)
    /\ items = <<>>
    /\ locals = [tries |-> 0, all_candidates |-> {}, pairs |-> <<>>]
    /\ calls = <<>>
    /\ ret = Pending

NextRecFlow ==
    \/ FetchFirst
    \/ FetchNext
    \/ FetchReturn
    \/ RecStart
    \/ RecAttempt
    \/ RecLoopEnd
    \/ RecFinish

SpecRecFlow == InitRecFlow /\ [][NextRecFlow]_vars

(***************************************************************************)
(* Claims about the recommendation sub-flow                                *)
(***************************************************************************)

\* C10: the sub-flow issues at most max_tries recommendation requests, and
\* is never about to make a further attempt once an attempt has left the
\* accumulated candidates at limit or more.
C10_AtMostMaxTries ==
    /\ Count(calls, "recommendations") <= args.max_tries
    /\ (pc = "loop" /\ locals.tries >= 1 /\ locals.pairs # <<>>) =>
            Cardinality(locals.all_candidates) < args.limit


\* the sub-flow has returned (it has not raised)
RecReturned == pc = "done" /\ ret.kind = "value"

\* C11: when the sub-flow returns (limit being a count, 0 or more), its
\* result holds at most limit native ids, pairwise distinct, each one
\* accumulated from an answer and none a duplicate of the fetched target
\* under the dual-key rule; if any candidate was accumulated the result was
\* appended to the target in the one append call, else no append call was made.
C11_ResultWithinLimit ==
    RecReturned =>
        LET out == ret.value IN
        /\ Len(out) <= args.limit
        /\ \A i, j \in 1..Len(out) : out[i] = out[j] => i = j
        /\ \A i \in 1..Len(out) :
            /\ out[i] \in locals.all_candidates
            /\ ~IsDuplicateOf(items, TrackOfId(out[i]))
        /\ IF locals.all_candidates = {}
           THEN AppendCalls = <<>> /\ out = <<>> /\ playlist = items
           ELSE /\ AppendCalls = << [op |-> "playlist_add_items", items |-> out] >>
                /\ IdsOf(playlist) = IdsOf(items) \o out

\* more candidates than limit were accumulated for a target that is not
\* empty, and limit of them were appended
C11_Witness ==
    /\ RecReturned
    /\ items # <<>>
    /\ args.limit >= 1
    /\ Len(ret.value) = args.limit
    /\ Cardinality(locals.all_candidates) > args.limit
    /\ Count(calls, "playlist_add_items") = 1


\* the recommendation requests issued so far; a raising attempt ends the
\* sub-flow, so the k-th request is the k-th attempt's
Requests == SelectSeq(calls, LAMBDA c : c.op = "recommendations")

\* the target's native ids, most recently added first
NewestFirst == [i \in 1..Len(items) |-> items[Len(items) - i + 1].id]

SeedChunkSize == 5 - Len(OrEmpty(args.seed_genres))

\* there is a k-th consecutive chunk of that size
HasSeedChunk(k) == SeedChunkSize > 0 /\ (k - 1) * SeedChunkSize < Len(items)

SeedChunk(k) ==
    SubSeq(NewestFirst, (k - 1) * SeedChunkSize + 1, Min(k * SeedChunkSize, Len(items)))

SeedCount(c) == Len(OrEmpty(c.seed_tracks)) + Len(OrEmpty(c.seed_genres))

\* C12 as stated, on the runs with max_tries of 1 or more: the k-th request
\* carries the k-th chunk of the target's ids, newest first, and the full
\* genre list, 1 to 5 seeds in all.
C12_SeedsAsStated ==
    args.max_tries >= 1 =>
    \A k \in 1..Len(Requests) :
        /\ HasSeedChunk(k)
        /\ Requests[k].seed_tracks = Some(SeedChunk(k))
        /\ Requests[k].seed_genres = args.seed_genres
        /\ SeedCount(Requests[k]) \in 1..5

\* C12 amended: the k-th request carries the k-th chunk of the target's
\* ids, newest first, when there is one and no track seeds when the chunks
\* have run out; it carries the full genre list when k <= max_tries and no
\* genre seeds otherwise (the one attempt made with max_tries = 0); every
\* request carries 1 to 5 seeds in all.
C12_SeedsPerAttempt ==
    \A k \in 1..Len(Requests) :
        /\ Requests[k].seed_tracks =
                IF HasSeedChunk(k) THEN Some(SeedChunk(k)) ELSE NoList
        /\ Requests[k].seed_genres =
                IF k <= args.max_tries THEN args.seed_genres ELSE NoList
        /\ SeedCount(Requests[k]) \in 1..5

\* a second request went out with the second chunk and the genre seeds
C12_Witness ==
    /\ Len(Requests) >= 2
    /\ Requests[2].seed_tracks # NoList
    /\ Len(OrEmpty(Requests[2].seed_genres)) >= 1
    /\ Requests[2].seed_tracks # Requests[1].seed_tracks


(***************************************************************************)
(* The archive pass of utils.py run twice on the same source tracks        *)
(***************************************************************************)

InitArchiveTwice ==
    /\ pc = "fetch"
    /\ \E m \in 0..MaxSource :
         \E c \in [1..m -> SourceEntries] :
            args = [variant |-> "utils", tracks |-> AsItems(c)]
    /\ \E k \in 0..MaxTarget :
         \E e \in [1..k -> TargetEntries] :
            playlist = AsItems(e)
    /\ results = Page(<<>>, 0)
    /\ items = <<>>
    /\ locals = [run |-> 1, first_target |-> <<>>, first_calls |-> 0]
    /\ calls = <<>>
    /\ ret = Pending

\* the job runs again: the same tracks, the target as the first run left it
RunAgain ==
    /\ pc \in {"done", "raised"}
    /\ locals.run = 1
    /\ locals' = [run |-> 2, first_target |-> playlist, first_calls |-> Len(calls)]
    /\ pc' = "fetch"
    /\ results' = Page(<<>>, 0)
    /\ items' = <<>>
    /\ ret' = Pending
    /\ UNCHANGED <<args, playlist, calls>>

NextArchiveTwice ==
    \/ FetchFirst
    \/ FetchNext
    \/ FetchReturn
    \/ AddToAllTimePlaylist
    \/ RunAgain

SpecArchiveTwice == InitArchiveTwice /\ [][NextArchiveTwice]_vars

\* the provider calls of the second run
SecondRunCalls == SubSeq(calls, locals.first_calls + 1, Len(calls))

\* C13: the second of two archive passes over the same source tracks
\* returns the empty list, issues no append call and leaves the target as
\* the first pass left it.
C13_SecondRunAppendsNothing ==
    (pc \in {"done", "raised"} /\ locals.run = 2) =>
        /\ ret = Returned(<<>>)
        /\ Count(SecondRunCalls, "playlist_add_items") = 0
        /\ playlist = locals.first_target

====
